---- MODULE Spec2Model ----
(***************************************************************************)
(* A model of the workflow engine of packages/ai/graph: ExecutionContext   *)
(* (completed/running task sets, task data, execution counts, timings,     *)
(* abort flags) and WorkflowEngine.executeTask, the task scheduler with    *)
(* its attempt loop, routing resolution, onError recovery, breakpoints and *)
(* abort.                                                                  *)
(*                                                                         *)
(* JavaScript runs each piece of code between two awaits without           *)
(* interruption, so one action of the model is one such piece: the code    *)
(* from the moment an awaited promise settles up to the next await of the  *)
(* same executeTask call, every synchronous call it makes included (the    *)
(* entry of each successor's executeTask runs inside its predecessor's     *)
(* piece).  An executeTask call is a record of calls, numbered in call      *)
(* order; its pc names the await it is suspended at.  The record of a call *)
(* lives until the caller that awaits it has taken its outcome.            *)
(***************************************************************************)
EXTENDS Integers, Sequences, FiniteSets, TLC

\* ---------------------------------------------------------------- bounds
\* The number of executeTask calls of one run (routing may loop for ever).
MaxCalls == 3
\* The largest retryCount a task is registered with.
MaxRetry == 1
\* The executeTask calls a run of the fan-out specification makes at most
MaxFanOutCalls == 4

\* The executeTask calls a run of the resume specification makes at most
MaxResumeCalls == 4

\* The executeTask calls a run of the abort specification makes at most
MaxAbortCalls == 2

\* ------------------------------------------------------------ task names
\* The names a workflow registers tasks under.
Tasks == {"A", "B", "C"}
\* Every name executeTask may be called with: "end" reaches executeTask as a
\* task name on the onError path (line 1072), where it is not special.
Names == Tasks \cup {"end"}

\* ---------------------------------------------------- routing destinations
\* string | string[] | ParallelTaskRoute[] | undefined, and the literal
\* "end": the names in `to` and, for a list of {task, data?}, each entry's
\* data in `data` ("undefined" where the entry has none).
Undefined == [kind |-> "undefined", to |-> <<>>, data |-> <<>>]
EndRoute == [kind |-> "end", to |-> <<>>, data |-> <<>>]
One(t) == [kind |-> "task", to |-> <<t>>, data |-> <<>>]
Many(s) == [kind |-> "list", to |-> s, data |-> <<>>]
Routes(s, d) == [kind |-> "routes", to |-> s, data |-> d]

\* The destinations a task passes to redirectTo (Undefined: it does not call
\* it), returns as `next` (Undefined: a bare result, or next: undefined), the
\* router returns, and an onError handler returns as `next`.
RedirectChoices == {Undefined, One("B")}
NextChoices == {Undefined, EndRoute, One("A")}
RouterChoices == {Undefined, EndRoute, One("C"), Many(<<"B", "C">>)}
OnErrorNextChoices == {Undefined, EndRoute, One("C")}

\* What an onError handler returns: {retry?, result?, next?}
OnErrorChoices ==
    [retry : BOOLEAN, hasResult : BOOLEAN, next : OnErrorNextChoices]

\* ------------------------------------------------------------------ values
NoValue == "undefined"

\* The options the workflow registers each of its tasks with (TaskOptions,
\* lines 367-376): A is retried, has a timeout of 0 and no onError; B gives
\* no retryCount and has an onError; C is retried, has a timeout and an
\* onError, and depends on A.  An optional number is a pair: whether it is
\* given, and its value when it is.
TaskOptions(name) ==
    IF name = "A" THEN
        [hasRetryCount |-> TRUE, retryCount |-> MaxRetry,
         hasTimeoutMs |-> TRUE, timeoutMs |-> 0,
         onError |-> FALSE, dependencies |-> {}]
    ELSE IF name = "B" THEN
        [hasRetryCount |-> FALSE, retryCount |-> 0,
         hasTimeoutMs |-> FALSE, timeoutMs |-> 0,
         onError |-> TRUE, dependencies |-> {}]
    ELSE [hasRetryCount |-> TRUE, retryCount |-> MaxRetry,
          hasTimeoutMs |-> TRUE, timeoutMs |-> 1000,
          onError |-> TRUE, dependencies |-> {"A"}]

\* The TaskConfig that task(options) stores (lines 1110-1119): retryCount is
\* `options.retryCount || 0`, the other options are copied.
TaskConfig(options) ==
    [retryCount |-> IF options.hasRetryCount THEN options.retryCount ELSE 0,
     hasTimeoutMs |-> options.hasTimeoutMs,
     timeoutMs |-> options.timeoutMs,
     onError |-> options.onError,
     dependencies |-> options.dependencies]

\* The WorkflowConfig the engine is constructed with (lines 307-314)
WorkflowConfig == [maxRetries |-> 2]
InitialData == "init"
ExecuteResult == "ok"
OnErrorResult == "recovered"
InterruptData == "bp"
RouteData == "own"

\* A `next` that is a list of {task, data?}: C with data of its own, B without
RouteChoices == {Routes(<<"C", "B">>, <<RouteData, NoValue>>)}

VARIABLES
    tasks,                \* WorkflowEngine.tasks: name -> TaskConfig
    persistence,          \* whether a PersistenceLayer was passed in
    completedTasks,       \* WorkflowState.completedTasks
    runningTasks,         \* WorkflowState.runningTasks
    taskData,             \* WorkflowState.taskData
    breakpoint,           \* WorkflowState.breakpointTask / breakpointData
    aborted,              \* ExecutionContext.aborted
    gracefulShutdown,     \* ExecutionContext.gracefulShutdown
    taskExecutionCounts,  \* ExecutionContext.taskExecutionCounts
    taskTimings,          \* ExecutionContext.taskTimings
    calls,                \* the executeTask calls in progress: number -> call
    numCalls,             \* the number of executeTask calls made so far
    budget,               \* the number of executeTask calls the run may make
    stored,               \* the persistence layer: the last snapshot written
    writes,               \* the persistence layer: the writes in progress
    signalAborted,        \* WorkflowEngine.signal.aborted (the signal the constructor was given)
    emitted,              \* history: the taskExecution events emitted, per task
    entered,              \* history: times a name was added to completedTasks while absent
    snapshotValue,        \* deserializeState: the snapshot value that is serialized
    edge,                 \* edge handlers: the edge handled, with its config and its nodes
    handler,              \* edge handlers: the state of the call of handle(edges, ...)
    restoredValue,        \* deserializeState: what deserializeState made of its serialized form
    stream,               \* POST: the response stream and the request's abortController
    mapping,              \* MapEdgeHandler: the edge and the state of the call of handle
    summary,              \* getMainTimingSummary: the timing records and the summary made of them
    resumeCall            \* resume: the breakpointId the last call of resume was given

vars == <<tasks, persistence, completedTasks, runningTasks, taskData, breakpoint,
          aborted, gracefulShutdown, taskExecutionCounts, taskTimings, calls, numCalls,
          budget, stored, writes, signalAborted, emitted, entered, snapshotValue, restoredValue,
          edge, handler, stream, mapping, summary, resumeCall>>

\* The variables of the engine
engineVars == <<tasks, persistence, completedTasks, runningTasks, taskData, breakpoint,
                aborted, gracefulShutdown, taskExecutionCounts, taskTimings, calls,
                numCalls, budget, stored, writes, signalAborted, emitted, entered>>

\* The variables of the other components, which the engine leaves alone.
otherVars == <<snapshotValue, restoredValue, edge, handler, stream, mapping, summary,
               resumeCall>>

\* The part of the state a synchronous piece of code reads and writes, as one
\* value that the operators below pass along.
Cur ==
    [calls |-> calls, n |-> numCalls, completed |-> completedTasks, running |-> runningTasks,
     data |-> taskData, counts |-> taskExecutionCounts, timings |-> taskTimings,
     bp |-> breakpoint, entered |-> entered, stored |-> stored, writes |-> writes,
     emitted |-> emitted]

Commit(E) ==
    /\ calls' = E.calls
    /\ numCalls' = E.n
    /\ completedTasks' = E.completed
    /\ runningTasks' = E.running
    /\ taskData' = E.data
    /\ taskExecutionCounts' = E.counts
    /\ taskTimings' = E.timings
    /\ breakpoint' = E.bp
    /\ entered' = E.entered
    /\ stored' = E.stored
    /\ writes' = E.writes
    /\ emitted' = E.emitted

HardAborted == aborted /\ ~gracefulShutdown

\* ------------------------------------------------------ persistence layer

\* A Set as the persistence layer serializes it: {type: "Set", value: [...]}
SerializeSet(S) ==
    [type |-> "Set",
     value |-> CHOOSE q \in [1 .. Cardinality(S) -> S] :
                   \A x \in S : \E n \in 1 .. Cardinality(S) : q[n] = x]

\* The snapshot saveWorkflow(id, engine) takes of the engine: workflowState
\* and executionCounts (the entries of the Map: the tasks counted so far).
Snapshot(E) ==
    [completedTasks |-> SerializeSet(E.completed),
     runningTasks |-> SerializeSet(E.running),
     taskData |-> E.data,
     breakpoint |-> E.bp,
     executionCounts |-> [t \in {u \in DOMAIN E.counts : E.counts[u] > 0} |-> E.counts[t]]]

\* saveWorkflow(id, engine) is called: the snapshot is taken and its write
\* begins; owner is the call that awaits the write, 0 when nobody does.
SaveWorkflow(E, owner) ==
    IF E.stored.observed
    THEN [E EXCEPT !.writes = @ \cup {[owner |-> owner, snap |-> Snapshot(E)]}]
    ELSE E

\* The write the call i awaits is durable.
WriteDone(E, i) ==
    IF \E w \in E.writes : w.owner = i
    THEN LET w == CHOOSE x \in E.writes : x.owner = i
         IN  [E EXCEPT !.stored.exists = TRUE, !.stored.snap = w.snap,
                       !.writes = @ \ {w}]
    ELSE E

\* deserializeState (lines 772-803) of a serialized Set
DeserializeState(data) == {data.value[n] : n \in 1 .. Len(data.value)}

\* ----------------------------------------------------------- snapshot values
\* The values a snapshot is built from: primitives, arrays, plain objects,
\* Sets and string-keyed Maps.
Prim(p) == [k |-> "prim", v |-> p]
Arr(q) == [k |-> "arr", v |-> q]
Obj(f) == [k |-> "obj", v |-> f]
SetOf(S) == [k |-> "set", v |-> S]
MapOf(f) == [k |-> "map", v |-> f]

\* The elements of a set in the order the Set iterates them
RECURSIVE Elements(_)
Elements(S) ==
    IF S = {} THEN <<>>
    ELSE LET x == CHOOSE y \in S : TRUE IN <<x>> \o Elements(S \ {x})

\* The serialized form of a value: Sets as {type: "Set", value: [...]}, Maps
\* as {type: "Map", value: {...}}, arrays and plain objects recursed into,
\* primitives as they are.
RECURSIVE Serialize(_)
Serialize(x) ==
    CASE x.k = "prim" -> x
      [] x.k = "arr" -> Arr([n \in DOMAIN x.v |-> Serialize(x.v[n])])
      [] x.k = "obj" -> Obj([key \in DOMAIN x.v |-> Serialize(x.v[key])])
      [] x.k = "set" ->
            LET q == Elements(x.v)
            IN  Obj([key \in {"type", "value"} |->
                       IF key = "type" THEN Prim("Set")
                       ELSE Arr([n \in DOMAIN q |-> Serialize(q[n])])])
      [] x.k = "map" ->
            Obj([key \in {"type", "value"} |->
                   IF key = "type" THEN Prim("Map")
                   ELSE Obj([m \in DOMAIN x.v |-> Serialize(x.v[m])])])

\* data.type === t, for an object
HasType(data, t) ==
    data.k = "obj" /\ "type" \in DOMAIN data.v /\ data.v["type"] = Prim(t)

\* The characters of a primitive string
Chars(p) ==
    CASE p = "Set" -> <<"S", "e", "t">>
      [] p = "Map" -> <<"M", "a", "p">>
      [] OTHER -> <<p>>

\* The property names of an array or a string: "0", "1", ...
IndexKey(n) == CASE n = 1 -> "0" [] n = 2 -> "1" [] OTHER -> "2"

\* Object.entries(x) as a function from the keys to the values
Entries(x) ==
    CASE x.k = "obj" -> x.v
      [] x.k = "arr" -> [key \in {IndexKey(n) : n \in DOMAIN x.v} |->
                            x.v[CHOOSE n \in DOMAIN x.v : IndexKey(n) = key]]
      [] x.k = "prim" -> [key \in {IndexKey(n) : n \in DOMAIN Chars(x.v)} |->
                            Prim(Chars(x.v)[CHOOSE n \in DOMAIN Chars(x.v) : IndexKey(n) = key])]
      [] OTHER -> <<>>

\* deserializeState (lines 772-803) of any serialized value: the elements
\* of a Set and the values of a Map are taken as they are.
RECURSIVE DeserializeValue(_)
DeserializeValue(data) ==
    IF HasType(data, "Set") /\ "value" \in DOMAIN data.v /\ data.v["value"].k = "arr"
    THEN SetOf({data.v["value"].v[n] : n \in DOMAIN data.v["value"].v})
    ELSE IF HasType(data, "Map") /\ "value" \in DOMAIN data.v
    THEN MapOf(Entries(data.v["value"]))
    ELSE CASE data.k = "arr" -> Arr([n \in DOMAIN data.v |-> DeserializeValue(data.v[n])])
           [] data.k = "obj" -> Obj([key \in DOMAIN data.v |-> DeserializeValue(data.v[key])])
           [] OTHER -> data

\* ------------------------------------------------------------ edge handlers
\* `config.maxIterations ?? 3` (lines 31, 215)
DefaultMaxIterations == 3

\* The responses are numbered: 0 is the source response, n the n-th response
\* a node produced during the call.
SourceResponse == 0

\* An edge from -> to with its pattern, its config and what the graph holds
\* for it: stopWhen is the set of responses stopCondition holds for.
NoEdge ==
    [pattern |-> "none", hasMaxIterations |-> FALSE, maxIterations |-> 0, stopWhen |-> {},
     inputTransform |-> FALSE, outputTransform |-> FALSE, toNode |-> FALSE,
     fromNode |-> FALSE, enableReasoning |-> FALSE, fallback |-> FALSE]

\* The call of handle before it begins: finalResponse is a list of responses,
\* joined or handed to outputTransform.
NewHandler ==
    [pc |-> "idle", iterations |-> 0, currentResponse |-> SourceResponse,
     responses |-> <<>>, inputs |-> <<>>, loopResponses |-> <<>>,
     finalResponse |-> [transformed |-> FALSE, parts |-> <<SourceResponse>>],
     completed |-> {}, results |-> {}, threw |-> FALSE]

MaxIterations(e) ==
    IF e.hasMaxIterations THEN e.maxIterations ELSE DefaultMaxIterations

\* graph.shouldStop(stopCondition, currentResponse)
ShouldStop(e, response) == response \in e.stopWhen

\* processAgentMessage(nodeId, name, node, input) returns: the response is
\* pushed to responses; the input it was given is kept in inputs.
Invoke(h, node, input) ==
    LET r == Len(h.responses) + 1
    IN  [h EXCEPT !.responses = Append(@, [node |-> node, response |-> r]),
                  !.inputs = Append(@, [node |-> node] @@ input)]

\* The input of a node: the response it is built from, and whether it went
\* through inputTransform, was prefixed with the reasoning step's result, and
\* is a revisionPrompt.
Input(response, transformed, reasoned, prompt) ==
    [of |-> response, transformed |-> transformed, reasoned |-> reasoned,
     prompt |-> prompt]

\* ------------------------------------------------------------------ resume
\* No call of resume has been made.
NoResumeCall == [called |-> FALSE, breakpointId |-> "none"]

\* createBreakpoint gives the breakpoint an id, uuidv4() (line 679), which is
\* stored with the snapshot.
StoredBreakpointId == "stored"

\* The breakpointId a caller of resume passes: the id of the stored
\* breakpoint, or any other.
BreakpointIds == {StoredBreakpointId, "other"}

\* ----------------------------------------------------------- the map edge
\* A map edge with its config and its destination, and the call of handle
\* before it begins: the inputs, the stage of the callback of each input,
\* mappedResponses, and what handle leaves in responses, results, completed.
NoMapping ==
    [pc |-> "idle", inputTransform |-> FALSE, elements |-> 0, toNode |-> FALSE,
     enableReasoning |-> FALSE, outputTransform |-> FALSE, fallback |-> FALSE,
     inputs |-> <<>>, stage |-> <<>>, mappedResponses |-> <<>>,
     responses |-> <<>>, results |-> {}, completed |-> {}, threw |-> FALSE]

\* ------------------------------------------------------- the timing summary
\* The taskTimings of an ExecutionContext, in the order of insertion of the
\* tasks, before getMainTimingSummary is called.
NoSummary ==
    [order |-> <<>>, timings |-> [t \in Tasks |-> <<>>], done |-> FALSE,
     slowestTask |-> ""]

\* A duration as formatDuration writes it (lines 528-532, 601-605): the
\* number, kept in tenths, immediately followed by its unit. toFixed(1)
\* rounds to the nearest tenth.
FormatDuration(ms) ==
    IF ms < 1000 THEN [tenths |-> ms * 10, unit |-> "ms", spaced |-> FALSE]
    ELSE IF ms < 60000 THEN [tenths |-> (ms + 50) \div 100, unit |-> "s", spaced |-> FALSE]
    ELSE [tenths |-> (ms + 3000) \div 6000, unit |-> "m", spaced |-> FALSE]

\* parseDurationToMs (lines 553-557): duration.split(' ') yields the unit
\* only if a space separates it from the number; parseFloat reads the
\* leading number of the first part.
ParseDurationToMs(duration) ==
    LET unit == IF duration.spaced THEN duration.unit ELSE "undefined"
        multiplier == IF unit = "ms" THEN 1 ELSE IF unit = "s" THEN 1000 ELSE 60000
    IN  (duration.tenths * multiplier) \div 10

\* The sum of the durations of the timing records that have one (lines 537-538)
RECURSIVE TotalDuration(_)
TotalDuration(timings) ==
    IF timings = <<>> THEN 0
    ELSE (IF Head(timings).hasDuration THEN Head(timings).duration ELSE 0)
         + TotalDuration(Tail(timings))

\* The loop of getMainTimingSummary over the tasks from the k-th on (lines
\* 580-595), for slowestTask
RECURSIVE SlowestFrom(_, _, _)
SlowestFrom(S, k, slowest) ==
    IF k > Len(S.order) THEN slowest
    ELSE LET taskName == S.order[k]
             durationMs == ParseDurationToMs(FormatDuration(TotalDuration(S.timings[taskName])))
         IN  SlowestFrom(S, k + 1,
                         IF durationMs > slowest.duration
                         THEN [name |-> taskName, duration |-> durationMs]
                         ELSE slowest)

\* ------------------------------------------------------ the response stream
\* The stream POST answers with before start(controller) is called: the
\* messages handed to sendMessage, whether controller.close() was called, whether
\* the consumer has cancelled, and abortController.signal.aborted.
NewStream ==
    [pc |-> "created", messages |-> <<>>, closed |-> FALSE, cancelled |-> FALSE,
     aborted |-> FALSE]

\* A message that is not terminal
Message(type) == [type |-> type, status |-> "none", hasError |-> FALSE, error |-> ""]

\* The values executeStream may throw: an Error with its message, or any
\* other value.
Thrown == {[k |-> "Error", v |-> "boom"], [k |-> "number", v |-> 42],
           [k |-> "string", v |-> "failed"]}

\* `error instanceof Error ? error.message : String(error)` (line 87)
ErrorMessage(error) ==
    IF error.k = "number" THEN ToString(error.v) ELSE error.v

\* The catch block that reports every failure as an error
CatchStream_AlwaysError(s, error) ==
    LET done == [type |-> "done", status |-> "error", hasError |-> TRUE,
                 error |-> ErrorMessage(error)]
    IN  [s EXCEPT !.pc = "failed", !.messages = Append(@, done), !.closed = TRUE]

\* The catch block of start (lines 74-94): one "done" message, then
\* controller.close()
CatchStream(s, error) ==
    LET done == IF s.aborted
                THEN [type |-> "done", status |-> "aborted", hasError |-> FALSE,
                      error |-> ""]
                ELSE [type |-> "done", status |-> "error", hasError |-> TRUE,
                      error |-> ErrorMessage(error)]
    IN  [s EXCEPT !.pc = "failed", !.messages = Append(@, done), !.closed = TRUE]

\* ------------------------------------------------------- ExecutionContext

\* A TaskTiming record: its status and whether endTime/duration are set.
NewTiming == [status |-> "success", ended |-> FALSE]

\* emitTaskExecutionEvent (lines 481-485)
EmitTaskExecutionEvent(E, taskName) ==
    [E EXCEPT !.emitted[taskName] = @ + 1]

\* markTaskComplete (lines 417-431); `entered` counts the additions of a name
\* that was absent from completedTasks.
MarkTaskComplete(E, taskName, data) ==
    IF HardAborted THEN E
    ELSE [E EXCEPT !.counts[taskName] = @ + 1,
                   !.emitted[taskName] = @ + 1,
                   !.completed = @ \cup {taskName},
                   !.running = @ \ {taskName},
                   !.data[taskName] = data,
                   !.entered[taskName] = IF taskName \in E.completed THEN @ ELSE @ + 1]

ResetTaskCompletion(E, taskName) ==
    [E EXCEPT !.completed = @ \ {taskName}]

StartTaskTiming(E, taskName) ==
    [E EXCEPT !.timings[taskName] = Append(@, NewTiming)]

\* endTaskTiming(taskName, error?): closes the last record of the task, and
\* marks it failed when an error is given; a success leaves the status as it is.
EndTaskTiming(E, taskName, isError) ==
    LET ts == E.timings[taskName]
        n == Len(ts)
    IN  IF n = 0 THEN E
        ELSE [E EXCEPT !.timings[taskName][n] =
                 [status |-> IF isError THEN "failed" ELSE ts[n].status,
                  ended |-> TRUE]]

\* getTaskTimingSummary (lines 517-551), its `failures`: the number of the
\* task's timing records with status failed.
TimingFailures(taskName) ==
    Cardinality({n \in 1 .. Len(taskTimings[taskName]) :
                    taskTimings[taskName][n].status = "failed"})

\* getMainTimingSummary (lines 559-619), its `status`; taskSummary has an entry
\* for every name startTaskTiming was called with.
MainTimingStatus ==
    LET failedTasks == Cardinality({t \in Names : Len(taskTimings[t]) > 0
                                                  /\ TimingFailures(t) > 0})
    IN  IF aborted \/ failedTasks > 0 THEN "failed" ELSE "success"

\* ---------------------------------------------------------- executeTask

\* An executeTask call.  pc is the await the call is suspended at ("done"
\* once it has returned or thrown, with the outcome saying how).
NewCall(taskName, data, parent) ==
    [task |-> taskName, data |-> data, parent |-> parent,
     pc |-> "done", outcome |-> "none", value |-> NoValue, awaited |-> TRUE,
     attempt |-> 0, invoked |-> 0, interrupted |-> FALSE, interruptCalled |-> FALSE,
     taskRedirect |-> Undefined, directNext |-> Undefined,
     routerCalled |-> FALSE, routerValue |-> Undefined, nextTasks |-> Undefined,
     result |-> NoValue, kids |-> {},
     marked |-> FALSE, saved |-> FALSE,
     afterMark |-> FALSE, afterSave |-> FALSE,
     resolved |-> FALSE, onErrorCalls |-> 0]

Registered(taskName) == taskName \in DOMAIN tasks

RetryCount(taskName) == tasks[taskName].retryCount

\* `config.timeoutMs ?` (line 887): the attempt runs in executeTaskWithTimeout
HasTimeout(taskName) ==
    tasks[taskName].hasTimeoutMs /\ tasks[taskName].timeoutMs # 0

\* return / throw of an executeTask call
Finish(E, i, outcome, value) ==
    [E EXCEPT !.calls[i].pc = "done", !.calls[i].outcome = outcome,
              !.calls[i].value = value]

\* One turn of the attempt loop: config.execute is invoked (lines 880-910).
InvokeExecute(E, i) ==
    [E EXCEPT !.calls[i].pc = "execute",
              !.calls[i].invoked = @ + 1,
              !.calls[i].interrupted = FALSE,
              !.calls[i].interruptCalled = FALSE,
              !.calls[i].resolved = FALSE,
              !.calls[i].directNext = Undefined]

\* The entry without the reset of a completed task (lines 859-862 left out)
EnterTask_NoReset(E, taskName, data, parent) ==
    LET i == E.n + 1
        c == [NewCall(taskName, data, parent) EXCEPT
                !.afterMark = parent # 0 /\ E.calls[parent].marked,
                !.afterSave = parent # 0 /\ E.calls[parent].saved]
        E0 == [E EXCEPT !.n = i,
                        !.calls = [j \in DOMAIN @ \cup {i} |->
                                      IF j = i THEN c ELSE @[j]]]
    IN  IF HardAborted THEN Finish(E0, i, "skipped", NoValue)
        ELSE IF ~Registered(taskName) THEN
            Finish(EndTaskTiming(E0, taskName, TRUE), i, "thrown", NoValue)
        ELSE IF ~(tasks[taskName].dependencies \subseteq E0.completed) THEN
            Finish(E0, i, "waiting", NoValue)
        ELSE IF taskName \in E0.running THEN Finish(E0, i, "running", NoValue)
        ELSE InvokeExecute(
                 StartTaskTiming([E0 EXCEPT !.running = @ \cup {taskName}], taskName), i)

\* executeTask from its entry up to the first await (lines 831-893): the new
\* call is appended to calls; it is done at once when a guard returns or the
\* task is not registered, and is suspended at execute otherwise.
EnterTask(E, taskName, data, parent) ==
    LET i == E.n + 1
        c == [NewCall(taskName, data, parent) EXCEPT
                !.afterMark = parent # 0 /\ E.calls[parent].marked,
                !.afterSave = parent # 0 /\ E.calls[parent].saved]
        E0 == [E EXCEPT !.n = i,
                        !.calls = [j \in DOMAIN @ \cup {i} |->
                                      IF j = i THEN c ELSE @[j]]]
    IN  IF HardAborted THEN Finish(E0, i, "skipped", NoValue)
        ELSE IF ~Registered(taskName) THEN
            Finish(EndTaskTiming(E0, taskName, TRUE), i, "thrown", NoValue)
        ELSE IF ~(tasks[taskName].dependencies \subseteq E0.completed) THEN
            Finish(E0, i, "waiting", NoValue)
        ELSE
            LET E1 == IF taskName \in E0.completed
                      THEN ResetTaskCompletion(E0, taskName) ELSE E0
            IN  IF taskName \in E1.running THEN Finish(E1, i, "running", NoValue)
                ELSE InvokeExecute(
                         StartTaskTiming([E1 EXCEPT !.running = @ \cup {taskName}],
                                         taskName), i)

\* nextTasks.map(t => this.executeTask(t, result)): the entries run one after
\* the other, in list order, before anything is awaited.
RECURSIVE EnterAll(_, _, _, _)
EnterAll(E, names, datas, parent) ==
    IF names = <<>> THEN E
    ELSE EnterAll(EnterTask(E, Head(names), Head(datas), parent),
                  Tail(names), Tail(datas), parent)

\* The data each successor is called with: `route.data !== undefined ?
\* route.data : result` for a list of {task, data?} (lines 991-996), the
\* result for the others.
SuccessorData(dest, result) ==
    [n \in 1 .. Len(dest.to) |->
        IF dest.kind = "routes" /\ dest.data[n] # NoValue THEN dest.data[n]
        ELSE result]

\* The successors are called and the call suspends at the await of them all.
Dispatch(E, i, names, datas, pc) ==
    LET E1 == EnterAll(E, names, datas, i)
    IN  [E1 EXCEPT !.calls[i].pc = pc,
                   !.calls[i].kids = (E.n + 1) .. E1.n]

\* The await of the successors is over: the calls that have ended are taken
\* and forgotten; a call still in progress (Promise.all rejects at the first
\* rejection) goes on with nobody awaiting it.
TakeSuccessors(E, i) ==
    LET ks == E.calls[i].kids
        ended == {k \in ks : E.calls[k].pc = "done"}
    IN  [E EXCEPT !.calls = [j \in DOMAIN @ \ ended |->
                     IF j = i THEN [@[j] EXCEPT !.kids = {}]
                     ELSE IF j \in ks THEN [@[j] EXCEPT !.awaited = FALSE]
                     ELSE @[j]]]

\* The resolution with the returned `next` taking precedence over redirectTo
ResolveNext_NextFirst(taskRedirect, directNext, routerValue) ==
    LET n1 == directNext
        n2 == IF n1 = Undefined /\ taskRedirect # Undefined THEN taskRedirect ELSE n1
    IN  IF n2 = Undefined THEN routerValue ELSE n2

\* The successors of a successful attempt (lines 945-971): redirectTo's
\* argument, else the returned `next`, else the router's value.
ResolveNext(taskRedirect, directNext, routerValue) ==
    LET n1 == taskRedirect
        n2 == IF n1 = Undefined /\ directNext # Undefined THEN directNext ELSE n1
    IN  IF n2 = Undefined THEN routerValue ELSE n2

\* Lines 934-1013, from the end of the save that follows markTaskComplete to
\* the next await or the return.  rv is what the router returns if called.
AfterSave(E, i, rv) ==
    LET c == E.calls[i]
        E0 == EmitTaskExecutionEvent(E, c.task)
    IN
    IF HardAborted THEN Finish(E0, i, "result", c.result)
    ELSE
        LET callRouter == c.taskRedirect = Undefined /\ c.directNext = Undefined
            nt == ResolveNext(c.taskRedirect, c.directNext, rv)
            E1 == [E0 EXCEPT !.calls[i].nextTasks = nt,
                            !.calls[i].resolved = TRUE,
                            !.calls[i].routerCalled = callRouter,
                            !.calls[i].routerValue =
                                IF callRouter THEN rv ELSE Undefined]
        IN  IF nt = EndRoute THEN
                IF persistence THEN SaveWorkflow([E1 EXCEPT !.calls[i].pc = "saveEnd"], i)
                ELSE Finish(E1, i, "result", c.result)
            ELSE IF nt # Undefined THEN Dispatch(E1, i, nt.to, SuccessorData(nt, c.result), "successors")
            ELSE IF persistence THEN SaveWorkflow([E1 EXCEPT !.calls[i].pc = "saveLast"], i)
            ELSE Finish(E1, i, "result", c.result)

\* Lines 913-932: execute has returned; nx is the `next` of its return value.
ExecuteResolved(E, i, nx, rv) ==
    LET t == E.calls[i].task
        E1 == MarkTaskComplete(EndTaskTiming(E, t, FALSE), t, ExecuteResult)
        E2 == [E1 EXCEPT !.calls[i].result = ExecuteResult,
                         !.calls[i].directNext = nx,
                         !.calls[i].marked = ~HardAborted,
                         !.calls[i].saved = FALSE]
    IN  IF persistence THEN SaveWorkflow([E2 EXCEPT !.calls[i].pc = "save"], i)
        ELSE AfterSave(E2, i, rv)

\* The loop allowing one attempt more than retryCount + 1
LoopOrThrow_OffByOne(E, i) ==
    IF E.calls[i].attempt > RetryCount(E.calls[i].task) + 1
    THEN Finish(E, i, "thrown", NoValue)
    ELSE InvokeExecute(E, i)

\* Lines 1088-1093: rethrow when the attempts are used up, else loop.
LoopOrThrow(E, i) ==
    IF E.calls[i].attempt > RetryCount(E.calls[i].task)
    THEN Finish(E, i, "thrown", NoValue)
    ELSE InvokeExecute(E, i)

\* The catch block handing the error to onError only once the retries are
\* used up
Catch_OnErrorWhenExhausted(E, i) ==
    LET t == E.calls[i].task
        E1 == [EndTaskTiming(E, t, TRUE) EXCEPT !.calls[i].attempt = @ + 1,
                                                !.calls[i].resolved = FALSE]
    IN  IF tasks[t].onError /\ E1.calls[i].attempt > RetryCount(t)
        THEN [E1 EXCEPT !.calls[i].pc = "onError", !.calls[i].onErrorCalls = @ + 1]
        ELSE LoopOrThrow(E1, i)

\* Lines 1014-1037: the catch block for an error that is no BreakpointError,
\* up to the await of onError.
Catch(E, i) ==
    LET t == E.calls[i].task
        E1 == [EndTaskTiming(E, t, TRUE) EXCEPT !.calls[i].attempt = @ + 1,
                                                !.calls[i].resolved = FALSE]
    IN  IF tasks[t].onError
        THEN [E1 EXCEPT !.calls[i].pc = "onError", !.calls[i].onErrorCalls = @ + 1]
        ELSE LoopOrThrow(E1, i)

\* Lines 1014-1022: the catch block for a BreakpointError.
CatchBreakpoint(E, i) ==
    LET t == E.calls[i].task
        E1 == [EndTaskTiming(E, t, TRUE) EXCEPT !.calls[i].attempt = @ + 1]
    IN  Finish(E1, i, "breakpoint", NoValue)

\* Lines 1051-1078: errorResult.next is dispatched ("end" is a task name
\* here), or errorResult.result returned.
AfterRecoveredSave(E, i) ==
    LET nx == E.calls[i].nextTasks IN
    IF nx = Undefined THEN Finish(E, i, "recovered", OnErrorResult)
    ELSE IF nx = EndRoute
         THEN Dispatch(E, i, <<"end">>, <<OnErrorResult>>, "errSuccessors")
         ELSE Dispatch(E, i, nx.to, SuccessorData(nx, OnErrorResult), "errSuccessors")

\* Lines 1039-1049: onError has returned r.
OnErrorResolved(E, i, r) ==
    LET c == E.calls[i] IN
    IF r.retry /\ c.attempt <= RetryCount(c.task) THEN InvokeExecute(E, i)
    ELSE IF r.hasResult THEN
        LET E1 == MarkTaskComplete(E, c.task, OnErrorResult)
            E2 == [E1 EXCEPT !.calls[i].result = OnErrorResult,
                             !.calls[i].nextTasks = r.next,
                             !.calls[i].marked = ~HardAborted,
                             !.calls[i].saved = FALSE]
        IN  IF persistence THEN SaveWorkflow([E2 EXCEPT !.calls[i].pc = "saveRecovered"], i)
            ELSE AfterRecoveredSave(E2, i)
    ELSE LoopOrThrow(E, i)

\* createBreakpoint (lines 674-693), for a registered task
CreateBreakpoint(E, taskName, data) ==
    LET E1 == [E EXCEPT !.bp = [task |-> taskName, data |-> data]]
    IN  IF persistence THEN SaveWorkflow(E1, 0) ELSE E1

KidsDone(i) == \A k \in calls[i].kids : calls[k].pc = "done"
KidThrew(i) == \E k \in calls[i].kids : calls[k].pc = "done" /\ calls[k].outcome = "thrown"

\* ---------------------------------------------------------------- actions
\* The other components before they are used.
InitOther ==
    /\ snapshotValue = Prim("x")
    /\ restoredValue = [done |-> FALSE, v |-> Prim("x")]
    /\ edge = NoEdge
    /\ handler = NewHandler
    /\ stream = NewStream
    /\ resumeCall = NoResumeCall
    /\ mapping = NoMapping
    /\ summary = NoSummary

NoBreakpoint == [task |-> "none", data |-> NoValue]

\* The store before anything was written to it; observed: whether the run
\* keeps track of what the persistence layer holds.
NoSnapshot(observed) ==
    [observed |-> observed, exists |-> FALSE,
     snap |-> [completedTasks |-> SerializeSet({}), runningTasks |-> SerializeSet({}),
               taskData |-> [t \in Tasks |-> NoValue], breakpoint |-> NoBreakpoint,
               executionCounts |-> <<>>]]

Init ==
    /\ tasks = <<>>
    /\ persistence \in BOOLEAN
    /\ completedTasks = {}
    /\ runningTasks = {}
    /\ taskData = [t \in Tasks |-> NoValue]
    /\ breakpoint = NoBreakpoint
    /\ aborted = FALSE
    /\ gracefulShutdown = FALSE
    /\ taskExecutionCounts = [t \in Tasks |-> 0]
    /\ taskTimings = [t \in Names |-> <<>>]
    /\ calls = <<>>
    /\ numCalls = 0
    /\ budget = MaxCalls
    /\ stored = NoSnapshot(FALSE)
    /\ writes = {}
    /\ signalAborted = FALSE
    /\ emitted = [t \in Tasks |-> 0]
    /\ entered = [t \in Tasks |-> 0]
    /\ InitOther

UnchangedContext ==
    UNCHANGED <<completedTasks, runningTasks, taskData, breakpoint,
                taskExecutionCounts, taskTimings, calls, numCalls, entered, emitted>>

\* The step of a piece of code that ends in the state E.
Step(E) ==
    /\ E.n <= budget
    /\ Commit(E)
    /\ UNCHANGED <<tasks, persistence, aborted, gracefulShutdown, budget, signalAborted>>
    /\ UNCHANGED otherVars

\* task(options) (lines 1110-1119), before the workflow is started
RegisterTask ==
    \E name \in Tasks :
        /\ numCalls = 0
        /\ tasks' = [n \in DOMAIN tasks \cup {name} |->
                        IF n = name THEN TaskConfig(TaskOptions(name)) ELSE tasks[n]]
        /\ UNCHANGED <<persistence, aborted, gracefulShutdown, budget, stored, writes,
                       signalAborted>>
        /\ UNCHANGED otherVars
        /\ UnchangedContext

\* start(initialTask, initialData)
Start ==
    \E initialTask \in Tasks :
        /\ numCalls = 0
        /\ Step(EnterTask(Cur, initialTask, InitialData, 0))

\* abort(graceful), from outside or from a task through its abort parameter
Abort ==
    \E graceful \in BOOLEAN :
        /\ aborted' = TRUE
        /\ gracefulShutdown' = graceful
        /\ writes' = IF persistence THEN SaveWorkflow(Cur, 0).writes ELSE writes
        /\ UNCHANGED <<tasks, persistence, budget, stored, signalAborted>>
        /\ UNCHANGED otherVars
        /\ UnchangedContext

\* The call i is suspended at the await named pc.
At(i, pc) == calls[i].pc = pc

\* redirectTo(rd) during an attempt of call i (rd Undefined: not called)
Redirected(i, rd) ==
    IF rd = Undefined THEN Cur ELSE [Cur EXCEPT !.calls[i].taskRedirect = rd]

\* execute returns, bare or with next
ExecuteReturns ==
    \E i \in DOMAIN calls, rd \in RedirectChoices, nx \in NextChoices,
       rv \in RouterChoices :
        /\ At(i, "execute") /\ ~calls[i].interrupted
        /\ Step(ExecuteResolved(Redirected(i, rd), i, nx, rv))

\* execute returns {result, next} with next a list of {task, data?}
ExecuteReturnsRoutes ==
    \E i \in DOMAIN calls, nx \in RouteChoices :
        /\ At(i, "execute") /\ ~calls[i].interrupted
        /\ Step(ExecuteResolved(Cur, i, nx, Undefined))

\* execute throws an error
ExecuteThrows ==
    \E i \in DOMAIN calls, rd \in RedirectChoices :
        /\ At(i, "execute") /\ ~calls[i].interrupted
        /\ Step(Catch(Redirected(i, rd), i))

\* execute calls interrupt(data): the interrupt of lines 903-909, which
\* throws BreakpointError, or under a timeout the interrupt of
\* executeTaskWithTimeout (lines 821-823), which only logs.
ExecuteInterrupts ==
    \E i \in DOMAIN calls :
        /\ At(i, "execute") /\ ~calls[i].interrupted /\ ~calls[i].interruptCalled
        /\ LET t == calls[i].task
               E1 == CreateBreakpoint(MarkTaskComplete(Cur, t, InterruptData),
                                      t, InterruptData)
           IN  IF HasTimeout(t)
               THEN Step([Cur EXCEPT !.calls[i].interruptCalled = TRUE])
               ELSE Step([E1 EXCEPT !.calls[i].interrupted = TRUE,
                                    !.calls[i].interruptCalled = TRUE,
                                    !.calls[i].marked = ~HardAborted,
                                    !.calls[i].saved = FALSE])

\* the timer of executeTaskWithTimeout (lines 825-827) fires first: the
\* attempt is rejected, whatever execute goes on to do
TimeoutFires ==
    \E i \in DOMAIN calls :
        /\ At(i, "execute") /\ ~calls[i].interrupted
        /\ HasTimeout(calls[i].task)
        /\ Step(Catch(Cur, i))

\* the BreakpointError reaches the catch block
BreakpointCaught ==
    \E i \in DOMAIN calls :
        /\ At(i, "execute") /\ calls[i].interrupted
        /\ Step(CatchBreakpoint(Cur, i))

\* the save awaited at line 931 ends
SaveDone ==
    \E i \in DOMAIN calls, rv \in RouterChoices :
        /\ At(i, "save")
        /\ Step(AfterSave([WriteDone(Cur, i) EXCEPT !.calls[i].saved = TRUE], i, rv))

\* the save awaited at line 977 or 1011 ends
LastSaveDone ==
    \E i \in DOMAIN calls :
        /\ At(i, "saveEnd") \/ At(i, "saveLast")
        /\ Step(Finish(WriteDone(Cur, i), i, "result", calls[i].result))

\* every successor awaited at lines 990-1007 has returned
SuccessorsFulfilled ==
    \E i \in DOMAIN calls :
        /\ At(i, "successors")
        /\ KidsDone(i) /\ ~KidThrew(i)
        /\ LET E1 == TakeSuccessors(Cur, i)
           IN  Step(IF persistence THEN SaveWorkflow([E1 EXCEPT !.calls[i].pc = "saveLast"], i)
                    ELSE Finish(E1, i, "result", calls[i].result))

\* a successor awaited at lines 990-1007 has thrown
SuccessorRejected ==
    \E i \in DOMAIN calls :
        /\ At(i, "successors")
        /\ KidThrew(i)
        /\ Step(Catch(TakeSuccessors(Cur, i), i))

\* onError returns {retry?, result?, next?}
OnErrorReturns ==
    \E i \in DOMAIN calls, r \in OnErrorChoices :
        /\ At(i, "onError")
        /\ Step(OnErrorResolved(Cur, i, r))

\* onError throws, or returns nothing (errorResult.retry throws)
OnErrorThrows ==
    \E i \in DOMAIN calls :
        /\ At(i, "onError")
        /\ Step(LoopOrThrow(Cur, i))

\* the save awaited at line 1048 ends
RecoveredSaveDone ==
    \E i \in DOMAIN calls :
        /\ At(i, "saveRecovered")
        /\ Step(AfterRecoveredSave([WriteDone(Cur, i) EXCEPT !.calls[i].saved = TRUE], i))

\* every successor awaited at lines 1054-1075 has returned
ErrSuccessorsFulfilled ==
    \E i \in DOMAIN calls :
        /\ At(i, "errSuccessors")
        /\ KidsDone(i) /\ ~KidThrew(i)
        /\ Step(Finish(TakeSuccessors(Cur, i), i, "recovered", OnErrorResult))

\* a successor awaited at lines 1054-1075 has thrown (lines 1080-1091)
ErrSuccessorRejected ==
    \E i \in DOMAIN calls :
        /\ At(i, "errSuccessors")
        /\ KidThrew(i)
        /\ Step(LoopOrThrow(TakeSuccessors(Cur, i), i))

Next ==
    \/ RegisterTask
    \/ Start
    \/ Abort
    \/ ExecuteReturns
    \/ ExecuteThrows
    \/ ExecuteInterrupts
    \/ TimeoutFires
    \/ BreakpointCaught
    \/ SaveDone
    \/ LastSaveDone
    \/ SuccessorsFulfilled
    \/ SuccessorRejected
    \/ OnErrorReturns
    \/ OnErrorThrows
    \/ RecoveredSaveDone
    \/ ErrSuccessorsFulfilled
    \/ ErrSuccessorRejected

Spec == Init /\ [][Next]_vars

\* ------------------------------------------------- the fan-out specification
\* The runs of an engine without a persistence layer that nobody aborts, in
\* which execute may also return a list of {task, data?}.
InitFanOut ==
    /\ tasks = <<>>
    /\ persistence = FALSE
    /\ completedTasks = {}
    /\ runningTasks = {}
    /\ taskData = [t \in Tasks |-> NoValue]
    /\ breakpoint = NoBreakpoint
    /\ aborted = FALSE
    /\ gracefulShutdown = FALSE
    /\ taskExecutionCounts = [t \in Tasks |-> 0]
    /\ taskTimings = [t \in Names |-> <<>>]
    /\ calls = <<>>
    /\ numCalls = 0
    /\ budget = MaxFanOutCalls
    /\ stored = NoSnapshot(FALSE)
    /\ writes = {}
    /\ signalAborted = FALSE
    /\ emitted = [t \in Tasks |-> 0]
    /\ entered = [t \in Tasks |-> 0]
    /\ InitOther

NextFanOut ==
    \/ RegisterTask
    \/ Start
    \/ ExecuteReturns
    \/ ExecuteReturnsRoutes
    \/ ExecuteThrows
    \/ TimeoutFires
    \/ SuccessorsFulfilled
    \/ SuccessorRejected
    \/ OnErrorReturns
    \/ OnErrorThrows
    \/ ErrSuccessorsFulfilled
    \/ ErrSuccessorRejected

SpecFanOut == InitFanOut /\ [][NextFanOut]_vars

\* ------------------------------------------------------------------ claims

Call(i) == calls[i]
Live == DOMAIN calls
Ended(i) == calls[i].pc = "done"

\* C1: while the workflow is aborted and not gracefully so, no execute is
\* invoked: no call in progress invokes execute again and no new call
\* invokes it.
C1_NoExecuteWhileHardAborted ==
    [][HardAborted =>
         \A i \in DOMAIN calls' :
            calls'[i].invoked = IF i \in DOMAIN calls THEN calls[i].invoked ELSE 0]_vars

\* C2: once a started workflow is aborted gracefully, no executeTask call made
\* from then on (the successor dispatch of the tasks in flight included)
\* invokes execute.
C2_NoNewTaskAfterGracefulAbort ==
    [][(aborted /\ gracefulShutdown /\ numCalls > 0) =>
         \A i \in DOMAIN calls' \ DOMAIN calls : calls'[i].invoked = 0]_vars

\* C3: the execution count of every task equals the number of times the task
\* was added to completedTasks while absent from it.
C3_CountIsEntriesIntoCompleted ==
    \A t \in Tasks : taskExecutionCounts[t] = entered[t]

\* C4: a task name is in runningTasks only while the task is executing; here
\* the clause on failure: when an executeTask call has ended by rethrowing its
\* task's error and no other call of the task is in progress, the name is not
\* in runningTasks.
C4_FailureRemovesFromRunning ==
    \A i \in Live :
        (/\ Ended(i) /\ Call(i).outcome = "thrown"
         /\ ~\E j \in Live : j # i /\ Call(j).task = Call(i).task /\ ~Ended(j))
        => Call(i).task \notin runningTasks

\* C5: no task is in runningTasks and in completedTasks at once.
C5_RunningNotCompleted == runningTasks \cap completedTasks = {}

\* C5, its case: a task that has completed before is running again, after
\* the reset of its completion.
C5_Witness ==
    \E t \in Tasks : t \in runningTasks /\ entered[t] >= 1 /\ t \notin completedTasks

\* C6: every successor whose execute has been invoked was dispatched after its
\* predecessor was marked complete and, with a persistence layer, after the
\* save that followed ended.
C6_SuccessorAfterMarkAndSave ==
    \A i \in Live :
        (Call(i).parent # 0 /\ Call(i).invoked > 0)
        => Call(i).afterMark /\ (persistence => Call(i).afterSave)

\* C7: the successors of a successful attempt are redirectTo's argument if
\* there is one, else the returned next if defined, else the router's value;
\* the router is consulted exactly when the first two are undefined; and the
\* calls awaited are calls of those successors, in their order.
C7_RoutingPriority ==
    \A i \in Live :
        Call(i).resolved =>
            LET c == Call(i) IN
            /\ c.taskRedirect # Undefined => c.nextTasks = c.taskRedirect
            /\ (c.taskRedirect = Undefined /\ c.directNext # Undefined)
                  => c.nextTasks = c.directNext
            /\ (c.taskRedirect = Undefined /\ c.directNext = Undefined)
                  => c.nextTasks = c.routerValue
            /\ c.routerCalled <=> (c.taskRedirect = Undefined /\ c.directNext = Undefined)
            /\ c.pc = "successors" =>
                  /\ Cardinality(c.kids) = Len(c.nextTasks.to)
                  /\ \A k \in c.kids : \E n \in 1 .. Len(c.nextTasks.to) :
                        /\ Call(k).task = c.nextTasks.to[n]
                        /\ Cardinality({j \in c.kids : j < k}) = n - 1

\* C7, its case: a task called redirectTo and returned a next, and the
\* successor awaited is the argument of redirectTo.
C7_Witness ==
    \E i \in Live :
        /\ Call(i).resolved /\ Call(i).pc = "successors"
        /\ Call(i).taskRedirect # Undefined /\ Call(i).directNext # Undefined
        /\ Call(i).directNext # Call(i).taskRedirect

\* C8, as claimed: the error reaches onError only once the retries are used
\* up (attempt counts the failed attempts).
C8_OnErrorOnlyAfterRetries ==
    \A i \in Live :
        Call(i).pc = "onError" => Call(i).attempt > RetryCount(Call(i).task)

\* C8, amended: onError is called after every failed attempt, also while
\* retries remain; execute is invoked again only while the failed attempts do
\* not exceed retryCount; the error is rethrown only once they do.
C8_OnErrorAfterEveryFailure ==
    \A i \in Live :
        (Registered(Call(i).task) /\ Call(i).outcome # "breakpoint") =>
            LET c == Call(i) IN
            /\ c.onErrorCalls = IF tasks[c.task].onError THEN c.attempt ELSE 0
            /\ (c.pc = "execute" /\ c.attempt > 0) => c.attempt <= RetryCount(c.task)
            /\ (Ended(i) /\ c.outcome = "thrown") => c.attempt > RetryCount(c.task)

\* C8, its case: execute is invoked again after onError was called for the
\* failure of the attempt before.
C8_Witness ==
    \E i \in Live :
        Call(i).pc = "execute" /\ Call(i).attempt = 1 /\ Call(i).onErrorCalls = 1

C10_OneTimingPerAttempt ==
    \A i \in Live :
        (/\ numCalls = 1 /\ ~aborted
         /\ Ended(i) /\ Call(i).outcome = "result" /\ Call(i).attempt >= 1)
        => LET ts == taskTimings[Call(i).task]
               k == Call(i).attempt
           IN  /\ Len(ts) = k + 1
               /\ \A n \in 1 .. Len(ts) :
                     ts[n].status = IF n <= k THEN "failed" ELSE "success"
               /\ taskExecutionCounts[Call(i).task] = 1
               /\ Call(i).value = ExecuteResult

\* C13: a breakpoint is not surfaced as a failure.  When the only call of a
\* run that was never aborted ends at a breakpoint raised by its first
\* attempt, the call has returned, onError was not called, execute was not
\* invoked again, the task's timing record is not marked failed and the
\* summary status is not "failed".
C13_BreakpointIsNoFailure ==
    \A i \in Live :
        (/\ numCalls = 1 /\ ~aborted
         /\ Ended(i) /\ Call(i).outcome = "breakpoint" /\ Call(i).attempt = 1)
        => LET ts == taskTimings[Call(i).task] IN
           /\ Call(i).onErrorCalls = 0
           /\ Call(i).invoked = 1
           /\ ts[Len(ts)].status # "failed"
           /\ MainTimingStatus # "failed"

\* C17: the error of a fan-out sibling reaches the predecessor only when all
\* the siblings have settled: no call is left in progress by a predecessor
\* that has stopped awaiting it.
C17_SiblingsSettledBeforeError ==
    \A i \in Live : ~Call(i).awaited => Ended(i)

\* C12: whether or not the task has a timeout, a call of interrupt(data)
\* inside execute marks the task complete with data, sets the breakpoint to
\* the task and data, and throws BreakpointError (the attempt is over); here
\* for the workflows that were never aborted.
C12_InterruptCreatesBreakpoint ==
    [][\A i \in DOMAIN calls \cap DOMAIN calls' :
         (~aborted /\ ~calls[i].interruptCalled /\ calls'[i].interruptCalled)
         => /\ calls[i].task \in completedTasks'
            /\ taskData'[calls[i].task] = InterruptData
            /\ breakpoint' = [task |-> calls[i].task, data |-> InterruptData]
            /\ calls'[i].interrupted]_vars

\* C19: an attempt of a task registered with timeoutMs = 0 is rejected and
\* does not run to completion: no call of such a task takes a value returned
\* by execute.
C19_ZeroTimeoutFails ==
    \A i \in Live :
        (/\ Registered(Call(i).task)
         /\ tasks[Call(i).task].hasTimeoutMs /\ tasks[Call(i).task].timeoutMs = 0)
        => Call(i).result # ExecuteResult

\* C20: a task registered without a retryCount of its own is allowed
\* config.maxRetries + 1 attempts: a call of it that has ended by rethrowing
\* has invoked execute that many times.
C20_DefaultRetriesFromConfig ==
    \A i \in Live :
        (/\ Registered(Call(i).task)
         /\ ~TaskOptions(Call(i).task).hasRetryCount
         /\ Ended(i) /\ Call(i).outcome = "thrown")
        => Call(i).invoked = WorkflowConfig.maxRetries + 1

\* -------------------------------------------------- the resume specification
\* The options the tasks of the resume specification are registered with:
\* no retries, no timeout, no onError; B depends on C.
ResumeTaskOptions(name) ==
    [hasRetryCount |-> FALSE, retryCount |-> 0, hasTimeoutMs |-> FALSE, timeoutMs |-> 0,
     onError |-> FALSE, dependencies |-> IF name = "B" THEN {"C"} ELSE {}]

\* An engine with a persistence layer and the three tasks registered, whose
\* store is kept track of.
InitResume ==
    /\ tasks = [name \in Tasks |-> TaskConfig(ResumeTaskOptions(name))]
    /\ persistence = TRUE
    /\ completedTasks = {}
    /\ runningTasks = {}
    /\ taskData = [t \in Tasks |-> NoValue]
    /\ breakpoint = NoBreakpoint
    /\ aborted = FALSE
    /\ gracefulShutdown = FALSE
    /\ taskExecutionCounts = [t \in Tasks |-> 0]
    /\ taskTimings = [t \in Names |-> <<>>]
    /\ calls = <<>>
    /\ numCalls = 0
    /\ budget = MaxResumeCalls
    /\ stored = NoSnapshot(TRUE)
    /\ writes = {}
    /\ signalAborted = FALSE
    /\ emitted = [t \in Tasks |-> 0]
    /\ entered = [t \in Tasks |-> 0]
    /\ InitOther

\* a write that nobody awaits (lines 686, 1124) is durable
WriteCompletes ==
    \E w \in writes :
        /\ w.owner = 0
        /\ Step(WriteDone(Cur, 0))

\* The process ends and a new engine is constructed (lines 637-666) with the
\* same tasks and the same persistence layer; the writes in progress are
\* lost.  The process that started the workflow is the one that ends.
Restart ==
    /\ 1 \in DOMAIN calls
    /\ Step([Cur EXCEPT !.calls = <<>>, !.completed = {}, !.running = {},
                        !.data = [t \in Tasks |-> NoValue], !.bp = NoBreakpoint,
                        !.counts = [t \in Tasks |-> 0],
                        !.timings = [t \in Names |-> <<>>], !.writes = {}])

\* resume(workflowId, breakpointId) from the end of the await of loadWorkflow
\* (lines 720-766), when a snapshot with a breakpoint was loaded; an engine
\* is resumed once
Resume ==
    /\ persistence /\ stored.exists
    /\ stored.snap.breakpoint # NoBreakpoint
    /\ \A i \in DOMAIN calls : i = 1 \/ calls[i].parent # 0
    /\ LET savedWorkflow == stored.snap
           E1 == [Cur EXCEPT
                    !.completed = DeserializeState(savedWorkflow.completedTasks),
                    !.running = DeserializeState(savedWorkflow.runningTasks),
                    !.data = savedWorkflow.taskData,
                    !.bp = savedWorkflow.breakpoint,
                    !.counts = [t \in Tasks |->
                                  IF t \in DOMAIN savedWorkflow.executionCounts
                                  THEN savedWorkflow.executionCounts[t] ELSE @[t]]]
       IN  IF Registered(savedWorkflow.breakpoint.task)
           THEN Step(EnterTask(E1, savedWorkflow.breakpoint.task,
                               savedWorkflow.breakpoint.data, 0))
           ELSE Step(E1)

\* The same call of resume with its second argument kept: the body of resume
\* (lines 718-769) does not read breakpointId.
ResumeWithId ==
    \E breakpointId \in BreakpointIds :
        /\ persistence /\ stored.exists
        /\ stored.snap.breakpoint # NoBreakpoint
        /\ \A i \in DOMAIN calls : i = 1 \/ calls[i].parent # 0
        /\ LET savedWorkflow == stored.snap
               E1 == [Cur EXCEPT
                        !.completed = DeserializeState(savedWorkflow.completedTasks),
                        !.running = DeserializeState(savedWorkflow.runningTasks),
                        !.data = savedWorkflow.taskData,
                        !.bp = savedWorkflow.breakpoint,
                        !.counts = [t \in Tasks |->
                                      IF t \in DOMAIN savedWorkflow.executionCounts
                                      THEN savedWorkflow.executionCounts[t] ELSE @[t]]]
               E2 == IF Registered(savedWorkflow.breakpoint.task)
                     THEN EnterTask(E1, savedWorkflow.breakpoint.task,
                                    savedWorkflow.breakpoint.data, 0)
                     ELSE E1
           IN  /\ E2.n <= budget
               /\ Commit(E2)
        /\ resumeCall' = [called |-> TRUE, breakpointId |-> breakpointId]
        /\ UNCHANGED <<tasks, persistence, aborted, gracefulShutdown, budget, signalAborted>>
        /\ UNCHANGED <<snapshotValue, restoredValue, edge, handler, stream, mapping, summary>>

NextResume ==
    \/ Start
    \/ ExecuteReturns
    \/ ExecuteThrows
    \/ ExecuteInterrupts
    \/ BreakpointCaught
    \/ SaveDone
    \/ LastSaveDone
    \/ SuccessorsFulfilled
    \/ SuccessorRejected
    \/ WriteCompletes
    \/ Restart
    \/ Resume

SpecResume == InitResume /\ [][NextResume]_vars

\* C16: when the successors of a task are a list of {task, data?}, a call of
\* executeTask is made for each entry, in order, with the entry's own data
\* when it is defined and the predecessor's result otherwise, and the
\* predecessor's call does not return before each of them has ended.
C16_RoutesRunBeforePredecessorResolves ==
    /\ \A i \in Live :
          (Call(i).pc = "successors" /\ Call(i).nextTasks.kind = "routes")
          => LET nt == Call(i).nextTasks
                 first == CHOOSE k \in Call(i).kids : \A m \in Call(i).kids : k <= m
             IN  /\ Cardinality(Call(i).kids) = Len(nt.to)
                 /\ \A n \in 1 .. Len(nt.to) :
                       /\ Call(first + n - 1).task = nt.to[n]
                       /\ Call(first + n - 1).data =
                            IF nt.data[n] # NoValue THEN nt.data[n] ELSE Call(i).result
    /\ \A k \in Live :
          (/\ Call(k).data = RouteData
           /\ Call(k).parent \in Live /\ Ended(Call(k).parent)
           /\ Call(Call(k).parent).outcome \in {"result", "recovered"})
          => Ended(k)

\* C18: once the router of a task has returned "end" and the call of that
\* task has returned, no execute is invoked any more, neither by a call in
\* progress nor by a new call.
C18_EndHaltsWorkflow ==
    [][(\E j \in DOMAIN calls :
           /\ calls[j].pc = "done" /\ calls[j].outcome = "result"
           /\ calls[j].routerCalled /\ calls[j].routerValue = EndRoute)
       => /\ \A i \in DOMAIN calls \cap DOMAIN calls' :
                calls'[i].invoked <= calls[i].invoked
          /\ \A i \in DOMAIN calls' \ DOMAIN calls : calls'[i].invoked = 0]_vars

\* C11: when a call of executeTask ends on a BreakpointError, the write of a
\* snapshot that holds the breakpoint has completed: the store holds the
\* engine's breakpoint.
C11_BreakpointDurableBeforeReturn ==
    [][\A i \in DOMAIN calls \cap DOMAIN calls' :
         (/\ persistence
          /\ calls[i].pc # "done"
          /\ calls'[i].pc = "done" /\ calls'[i].outcome = "breakpoint")
         => stored'.exists /\ stored'.snap.breakpoint = breakpoint']_vars

\* C14: resume, when the snapshot loaded holds the breakpoint of a registered
\* task H with data d and records H as completed, invokes H's execute with d.
C14_ResumeReinvokesBreakpointTask ==
    [][(/\ Resume
        /\ Registered(stored.snap.breakpoint.task)
        /\ stored.snap.breakpoint.task \in DeserializeState(stored.snap.completedTasks))
       => \E i \in DOMAIN calls' \ DOMAIN calls :
             /\ calls'[i].task = stored.snap.breakpoint.task
             /\ calls'[i].data = stored.snap.breakpoint.data
             /\ calls'[i].pc = "execute" /\ calls'[i].invoked = 1]_vars

\* C15: right after resume has restored the snapshot the execution counts
\* are those of the snapshot, a task without an entry in the snapshot having
\* none in the engine.
C15_ResumeRestoresCounts ==
    [][Resume
       => \A t \in Tasks :
             taskExecutionCounts'[t] =
                IF t \in DOMAIN stored.snap.executionCounts
                THEN stored.snap.executionCounts[t] ELSE 0]_vars

\* --------------------------------------------------- the abort specification
\* The runs of an engine without a persistence layer whose caller owns the
\* AbortController of the signal the engine was constructed with.
InitAbort ==
    /\ tasks = <<>>
    /\ persistence = FALSE
    /\ completedTasks = {}
    /\ runningTasks = {}
    /\ taskData = [t \in Tasks |-> NoValue]
    /\ breakpoint = NoBreakpoint
    /\ aborted = FALSE
    /\ gracefulShutdown = FALSE
    /\ taskExecutionCounts = [t \in Tasks |-> 0]
    /\ taskTimings = [t \in Names |-> <<>>]
    /\ calls = <<>>
    /\ numCalls = 0
    /\ budget = MaxAbortCalls
    /\ stored = NoSnapshot(FALSE)
    /\ writes = {}
    /\ signalAborted = FALSE
    /\ emitted = [t \in Tasks |-> 0]
    /\ entered = [t \in Tasks |-> 0]
    /\ InitOther

\* the owner of the AbortController aborts the signal; nothing in the engine
\* does (lines 635, 664, 819, 901, 1035 only pass the signal on)
SignalAborts ==
    /\ ~signalAborted
    /\ signalAborted' = TRUE
    /\ UNCHANGED <<tasks, persistence, aborted, gracefulShutdown, budget, stored, writes>>
    /\ UNCHANGED otherVars
    /\ UnchangedContext

NextAbort ==
    \/ RegisterTask
    \/ Start
    \/ Abort
    \/ SignalAborts
    \/ ExecuteReturns
    \/ ExecuteThrows
    \/ SuccessorsFulfilled
    \/ SuccessorRejected
    \/ OnErrorReturns
    \/ OnErrorThrows

SpecAbort == InitAbort /\ [][NextAbort]_vars

\* C21: a step that makes the workflow aborted and not gracefully so while a
\* task's execute is in flight leaves the signal passed to execute aborted.
C21_HardAbortAbortsSignal ==
    [][(/\ ~HardAborted
        /\ aborted' /\ ~gracefulShutdown'
        /\ \E i \in DOMAIN calls : calls[i].pc = "execute")
       => signalAborted']_vars

\* C22: while the workflow is aborted and not gracefully so, no taskExecution
\* event is emitted, for tasks in flight when abort was called included.
C22_NoEventAfterHardAbort ==
    [][HardAborted => \A t \in Tasks : emitted'[t] = emitted[t]]_vars

\* ------------------------------------------- the deserializeState specification
\* The primitives and the keys the snapshot values are built from
SnapshotPrims == {"Set", "x"}
SnapshotKeys == {"type", "value"}

\* The values one level deeper than those of V: arrays of at most one
\* element, plain objects and Maps over the keys, Sets of at most one element.
Nest(V) ==
    LET fs == UNION {[D -> V] : D \in SUBSET SnapshotKeys}
    IN  V \cup {Arr(<<>>)} \cup {Arr(<<x>>) : x \in V}
          \cup {Obj(f) : f \in fs} \cup {MapOf(f) : f \in fs}
          \cup {SetOf({})} \cup {SetOf({x}) : x \in V}

SnapshotValues == Nest(Nest({Prim(p) : p \in SnapshotPrims}))

\* An engine that is constructed and not used.
EngineIdle ==
    /\ tasks = <<>>
    /\ persistence = FALSE
    /\ completedTasks = {}
    /\ runningTasks = {}
    /\ taskData = [t \in Tasks |-> NoValue]
    /\ breakpoint = NoBreakpoint
    /\ aborted = FALSE
    /\ gracefulShutdown = FALSE
    /\ taskExecutionCounts = [t \in Tasks |-> 0]
    /\ taskTimings = [t \in Names |-> <<>>]
    /\ calls = <<>>
    /\ numCalls = 0
    /\ budget = 0
    /\ stored = NoSnapshot(FALSE)
    /\ writes = {}
    /\ signalAborted = FALSE
    /\ emitted = [t \in Tasks |-> 0]
    /\ entered = [t \in Tasks |-> 0]

InitDeserialize ==
    /\ EngineIdle
    /\ snapshotValue \in SnapshotValues
    /\ restoredValue = [done |-> FALSE, v |-> Prim("x")]
    /\ edge = NoEdge
    /\ handler = NewHandler
    /\ stream = NewStream
    /\ resumeCall = NoResumeCall
    /\ mapping = NoMapping
    /\ summary = NoSummary

\* deserializeState is applied to the serialized form of the value
DeserializeSerialized ==
    /\ ~restoredValue.done
    /\ restoredValue' = [done |-> TRUE, v |-> DeserializeValue(Serialize(snapshotValue))]
    /\ UNCHANGED <<snapshotValue, edge, handler, stream, mapping, summary, resumeCall>>
    /\ UNCHANGED engineVars

NextDeserialize ==
    \/ DeserializeSerialized

SpecDeserialize == InitDeserialize /\ [][NextDeserialize]_vars

\* C23: deserializeState applied to the serialized form of a snapshot value
\* yields that value, Sets as Sets and Maps as Maps.
C23_DeserializeRoundTrip ==
    restoredValue.done => restoredValue.v = snapshotValue

\* ------------------------------------------- the edge handler specification
\* The runs of LoopEdgeHandler.handle and RevisionEdgeHandler.handle on one
\* edge; a node invocation may throw.
MaxIterationsChoice == 2
MaxStopResponse == 3
StopResponses == 0 .. MaxStopResponse

Edges ==
    [pattern : {"loop", "revision"}, hasMaxIterations : BOOLEAN,
     maxIterations : 0 .. MaxIterationsChoice, stopWhen : SUBSET StopResponses,
     inputTransform : BOOLEAN, outputTransform : BOOLEAN, toNode : BOOLEAN,
     fromNode : BOOLEAN, enableReasoning : BOOLEAN, fallback : BOOLEAN]

InitEdge ==
    /\ EngineIdle
    /\ snapshotValue = Prim("x")
    /\ restoredValue = [done |-> FALSE, v |-> Prim("x")]
    /\ edge \in {e \in Edges : e.hasMaxIterations \/ e.maxIterations = 0}
    /\ handler = NewHandler
    /\ stream = NewStream
    /\ resumeCall = NoResumeCall
    /\ mapping = NoMapping
    /\ summary = NoSummary

HandlerStep(h) ==
    /\ handler' = h
    /\ UNCHANGED <<edge, snapshotValue, restoredValue, stream, mapping, summary, resumeCall>>
    /\ UNCHANGED engineVars

\* LoopEdgeHandler.handle up to the loop (lines 205-222)
HandleLoop ==
    /\ edge.pattern = "loop" /\ handler.pc = "idle"
    /\ HandlerStep(IF ~edge.toNode \/ ~edge.fromNode
                   THEN [handler EXCEPT !.pc = "returned"]
                   ELSE [handler EXCEPT !.pc = "loop",
                                        !.loopResponses = <<SourceResponse>>])

\* The loop condition letting an iteration begin when iterations equals
\* maxIterations
LoopGoesOn_OneMore ==
    /\ handler.iterations <= MaxIterations(edge)
    /\ ~ShouldStop(edge, handler.currentResponse)

\* The loop condition (lines 222-223)
LoopGoesOn ==
    /\ handler.iterations < MaxIterations(edge)
    /\ ~ShouldStop(edge, handler.currentResponse)

\* an iteration begins and `to` returns its response (lines 223-249)
LoopRunsTo ==
    /\ handler.pc = "loop" /\ LoopGoesOn
    /\ LET h == Invoke(handler, "to",
                       Input(handler.currentResponse, edge.inputTransform,
                             edge.enableReasoning, FALSE))
       IN  HandlerStep([h EXCEPT !.pc = "from",
                                 !.loopResponses = Append(@, Len(h.responses))])

\* an iteration begins and the invocation of `to` throws
LoopToThrows ==
    /\ handler.pc = "loop" /\ LoopGoesOn
    /\ HandlerStep([handler EXCEPT !.pc = "thrown", !.threw = TRUE])

\* `from` run on the iteration's input instead of the output of `to`
LoopRunsFrom_OnInput ==
    /\ handler.pc = "from"
    /\ LET h == Invoke(handler, "from",
                       Input(handler.currentResponse, FALSE, edge.enableReasoning, FALSE))
       IN  HandlerStep([h EXCEPT !.pc = "loop",
                                 !.loopResponses = Append(@, Len(h.responses)),
                                 !.currentResponse = Len(h.responses),
                                 !.iterations = @ + 1])

\* `from` returns its response and the iteration ends (lines 250-274)
LoopRunsFrom ==
    /\ handler.pc = "from"
    /\ LET toResponse == Len(handler.responses)
           h == Invoke(handler, "from",
                       Input(toResponse, FALSE, edge.enableReasoning, FALSE))
       IN  HandlerStep([h EXCEPT !.pc = "loop",
                                 !.loopResponses = Append(@, Len(h.responses)),
                                 !.currentResponse = Len(h.responses),
                                 !.iterations = @ + 1])

\* the invocation of `from` throws
LoopFromThrows ==
    /\ handler.pc = "from"
    /\ HandlerStep([handler EXCEPT !.pc = "thrown", !.threw = TRUE])

\* the loop is over and handle returns (lines 275-283)
LoopEnds ==
    /\ handler.pc = "loop" /\ ~LoopGoesOn
    /\ LET final == [transformed |-> edge.outputTransform,
                     parts |-> handler.loopResponses]
       IN  HandlerStep([handler EXCEPT !.pc = "returned",
                                       !.finalResponse = final,
                                       !.results = @ \cup {<<"from", final>>},
                                       !.completed = @ \cup {"to", "from"}])

\* RevisionEdgeHandler.handle up to the loop (lines 22-37)
HandleRevision ==
    /\ edge.pattern = "revision" /\ handler.pc = "idle"
    /\ HandlerStep([handler EXCEPT !.pc = "revise"])

RevisionGoesOn ==
    /\ handler.iterations < MaxIterations(edge)
    /\ ~ShouldStop(edge, handler.currentResponse)
    /\ edge.toNode

\* an iteration whose revisionPrompt is built from the source response
RevisionRuns_FromSource ==
    /\ handler.pc = "revise" /\ RevisionGoesOn
    /\ LET h == Invoke(handler, "to",
                       Input(SourceResponse, FALSE, edge.enableReasoning, TRUE))
       IN  HandlerStep([h EXCEPT !.currentResponse = Len(h.responses),
                                 !.iterations = @ + 1])

\* an iteration: the destination returns its response (lines 38-67)
RevisionRuns ==
    /\ handler.pc = "revise" /\ RevisionGoesOn
    /\ LET h == Invoke(handler, "to",
                       Input(handler.currentResponse, FALSE, edge.enableReasoning, TRUE))
       IN  HandlerStep([h EXCEPT !.currentResponse = Len(h.responses),
                                 !.iterations = @ + 1])

\* an iteration: the invocation of the destination throws
RevisionThrows ==
    /\ handler.pc = "revise" /\ RevisionGoesOn
    /\ HandlerStep([handler EXCEPT !.pc = "thrown", !.threw = TRUE])

\* the loop is over and handle returns (lines 68-74)
RevisionEnds ==
    /\ handler.pc = "revise" /\ ~RevisionGoesOn
    /\ LET final == [transformed |-> FALSE, parts |-> <<handler.currentResponse>>]
       IN  HandlerStep([handler EXCEPT !.pc = "returned",
                                       !.finalResponse = final,
                                       !.results = @ \cup {<<"to", final>>},
                                       !.completed = @ \cup {"to"}])

\* graph.withFallback(edge, fn) when fn has thrown: the error is handled by
\* the edge's fallback node and handle returns, or the error is rethrown.
WithFallback ==
    /\ handler.pc = "thrown"
    /\ HandlerStep([handler EXCEPT !.pc = IF edge.fallback THEN "returned" ELSE "rethrown"])

NextEdge ==
    \/ HandleLoop
    \/ LoopRunsTo
    \/ LoopToThrows
    \/ LoopRunsFrom
    \/ LoopFromThrows
    \/ LoopEnds
    \/ HandleRevision
    \/ RevisionRuns
    \/ RevisionThrows
    \/ RevisionEnds
    \/ WithFallback

SpecEdge == InitEdge /\ [][NextEdge]_vars

ZeroIterationLoop ==
    edge.pattern = "loop" /\ edge.hasMaxIterations /\ edge.maxIterations = 0

Outputs(node) == {n \in DOMAIN handler.responses : handler.responses[n].node = node}

\* C24 as stated: handle on a loop edge with maxIterations = 0 invokes no
\* node, appends nothing to responses and returns the source response.
C24_ZeroIterationsReturnsSource ==
    (ZeroIterationLoop /\ handler.pc = "returned")
    => /\ handler.inputs = <<>> /\ handler.responses = <<>>
       /\ handler.finalResponse = [transformed |-> FALSE, parts |-> <<SourceResponse>>]

\* C24 amended: handle on a loop edge with maxIterations = 0 invokes no node
\* and appends nothing to responses; it returns the source response when
\* the edge has no outputTransform (or a node of the edge is missing), and
\* what outputTransform makes of the list holding the source response
\* otherwise.
C24_ZeroIterationsInvokesNothing ==
    ZeroIterationLoop
    => /\ handler.inputs = <<>> /\ handler.responses = <<>>
       /\ handler.pc = "returned"
          => handler.finalResponse =
                [transformed |-> edge.outputTransform /\ edge.toNode /\ edge.fromNode,
                 parts |-> <<SourceResponse>>]

C24_Witness ==
    /\ ZeroIterationLoop /\ handler.pc = "returned"
    /\ edge.toNode /\ edge.fromNode /\ edge.outputTransform

\* What every run of the loop handler keeps: the n-th iteration runs `to` on
\* the current response and then `from` on the output of `to`, there are at
\* most maxIterations iterations, and none begins on a response
\* stopCondition holds for.
LoopIterations ==
    /\ \A n \in DOMAIN handler.inputs :
          LET x == handler.inputs[n] IN
          /\ handler.responses[n].node = x.node
          /\ x.node = IF n % 2 = 1 THEN "to" ELSE "from"
          /\ x.of = n - 1
          /\ x.node = "to" => x.of \notin edge.stopWhen
    /\ Cardinality(Outputs("to")) <= MaxIterations(edge)

\* C25 as stated: in a run of the loop handler on an edge whose nodes exist,
\* the iterations are as above, and once handle has returned `to` and `from`
\* have as many outputs in responses and both are in completed.
C25_LoopIterationsComplete ==
    (edge.pattern = "loop" /\ edge.toNode /\ edge.fromNode)
    => /\ LoopIterations
       /\ handler.pc = "returned"
          => /\ Cardinality(Outputs("to")) = Cardinality(Outputs("from"))
             /\ {"to", "from"} \subseteq handler.completed

\* C25 amended: the same, the equality of the outputs and the completion
\* of the endpoints only for the runs in which no invocation has thrown; in
\* the others `to` has at most one output more than `from`.
C25_LoopIterationsCompleteUnlessThrown ==
    (edge.pattern = "loop" /\ edge.toNode /\ edge.fromNode)
    => /\ LoopIterations
       /\ Cardinality(Outputs("to")) - Cardinality(Outputs("from")) \in {0, 1}
       /\ (handler.pc = "returned" /\ ~handler.threw)
          => /\ Cardinality(Outputs("to")) = Cardinality(Outputs("from"))
             /\ {"to", "from"} \subseteq handler.completed

C25_Witness ==
    /\ edge.pattern = "loop" /\ handler.pc = "returned" /\ ~handler.threw
    /\ Cardinality(Outputs("from")) = 1
    /\ handler.iterations < MaxIterations(edge)
    /\ handler.currentResponse \in edge.stopWhen

LastResponse ==
    IF handler.responses = <<>> THEN SourceResponse ELSE Len(handler.responses)

\* What every run of the revision handler keeps: at most maxIterations
\* invocations of the destination, each with the revisionPrompt of the
\* previous output (the source response for the first), none on a response
\* stopCondition holds for.
RevisionIterations ==
    /\ Len(handler.inputs) <= MaxIterations(edge)
    /\ \A n \in DOMAIN handler.inputs :
          LET x == handler.inputs[n] IN
          /\ x.node = "to" /\ x.prompt
          /\ x.of = n - 1
          /\ x.of \notin edge.stopWhen

\* C26 as stated: in a run of the revision handler the iterations are as
\* above and handle returns the last output produced.
C26_RevisionReturnsLastOutput ==
    edge.pattern = "revision"
    => /\ RevisionIterations
       /\ handler.pc = "returned"
          => handler.finalResponse = [transformed |-> FALSE, parts |-> <<LastResponse>>]

\* C26 amended: the same, handle returning the last output produced (the
\* source response when there is none) in the runs in which no invocation
\* has thrown, and the source response in the others.
C26_RevisionReturnsLastOutputUnlessThrown ==
    edge.pattern = "revision"
    => /\ RevisionIterations
       /\ handler.pc = "returned"
          => handler.finalResponse =
                [transformed |-> FALSE,
                 parts |-> <<IF handler.threw THEN SourceResponse ELSE LastResponse>>]

C26_Witness ==
    /\ edge.pattern = "revision" /\ handler.pc = "returned" /\ ~handler.threw
    /\ Len(handler.responses) = 2
    /\ handler.finalResponse.parts = <<2>>

\* ------------------------------------------------- the stream specification
\* The response stream of POST (lines 63-99): start runs executeStream, which
\* sends messages and returns or throws; the request may be aborted and the
\* consumer may cancel at any moment.
MaxStreamMessages == 3

\* The types of the messages executeStream sends before its terminal one
MessageTypes == {"answer", "status"}

InitStream ==
    /\ EngineIdle
    /\ snapshotValue = Prim("x")
    /\ restoredValue = [done |-> FALSE, v |-> Prim("x")]
    /\ edge = NoEdge
    /\ handler = NewHandler
    /\ stream = NewStream
    /\ resumeCall = NoResumeCall
    /\ mapping = NoMapping
    /\ summary = NoSummary

StreamStep(s) ==
    /\ stream' = s
    /\ UNCHANGED <<edge, handler, snapshotValue, restoredValue, mapping, summary, resumeCall>>
    /\ UNCHANGED engineVars

\* start(controller) calls executeStream (lines 71-73)
StartStream ==
    /\ stream.pc = "created"
    /\ StreamStep([stream EXCEPT !.pc = "executing"])

\* the listener of request.signal's abort event (lines 66-68)
RequestAborts ==
    /\ ~stream.aborted
    /\ StreamStep([stream EXCEPT !.aborted = TRUE])

\* cancel(): the consumer cancels the stream (lines 96-98)
CancelStream ==
    /\ stream.pc # "created" /\ ~stream.cancelled /\ ~stream.closed
    /\ StreamStep([stream EXCEPT !.cancelled = TRUE, !.aborted = TRUE])

\* executeStream sends a message
ExecuteStreamSends ==
    /\ stream.pc = "executing" /\ Len(stream.messages) < MaxStreamMessages
    /\ \E type \in MessageTypes :
          StreamStep([stream EXCEPT !.messages = Append(@, Message(type))])

\* executeStream returns, its terminal message sent and the stream closed
ExecuteStreamReturns ==
    /\ stream.pc = "executing"
    /\ LET done == [type |-> "done",
                    status |-> IF stream.aborted THEN "aborted" ELSE "complete",
                    hasError |-> FALSE, error |-> ""]
       IN  StreamStep([stream EXCEPT !.pc = "returned", !.messages = Append(@, done),
                                     !.closed = TRUE])

\* executeStream throws and start catches (lines 73-94)
ExecuteStreamThrows ==
    /\ stream.pc = "executing"
    /\ \E error \in Thrown : StreamStep(CatchStream(stream, error))

NextStream ==
    \/ StartStream
    \/ RequestAborts
    \/ CancelStream
    \/ ExecuteStreamSends
    \/ ExecuteStreamReturns
    \/ ExecuteStreamThrows

SpecStream == InitStream /\ [][NextStream]_vars

Terminal(messages) == {n \in DOMAIN messages : messages[n].type = "done"}

\* C27: when executeStream throws, one message of type "done" is handed to
\* sendMessage, the only one of the stream and its last, and the controller
\* is closed; its status
\* is "aborted" when the request's signal is aborted at that moment, and
\* "error" with a string error message otherwise. Nothing is sent afterwards.
C27_FailureSendsOneDone ==
    [][/\ (stream.pc = "executing" /\ stream'.pc = "failed")
          => /\ Terminal(stream'.messages) = {Len(stream'.messages)}
             /\ SubSeq(stream'.messages, 1, Len(stream.messages)) = stream.messages
             /\ Len(stream'.messages) = Len(stream.messages) + 1
             /\ stream'.closed
             /\ LET done == stream'.messages[Len(stream'.messages)] IN
                IF stream.aborted
                THEN done.status = "aborted"
                ELSE /\ done.status = "error" /\ done.hasError
                     /\ done.error \in {"boom", "42", "failed"}
       /\ stream.pc = "failed"
          => stream'.messages = stream.messages /\ stream'.closed]_vars

C27_Witness ==
    /\ stream.pc = "failed" /\ ~stream.aborted
    /\ Len(stream.messages) = 3
    /\ stream.messages[3].status = "error" /\ stream.messages[3].error = "42"

\* C28: when onError has returned a defined result and no retry is taken,
\* the successors are resolved as after a successful attempt; in particular
\* a `next` of "end" terminates the branch, so that executeTask is not
\* called for it.
C28_RecoveredEndTerminatesBranch ==
    \A i \in DOMAIN calls :
        calls[i].pc = "errSuccessors" => \A k \in calls[i].kids : calls[k].task # "end"

\* C29: when the onError handler of a task throws, the call of executeTask
\* ends by rethrowing the task's error, and execute is not invoked again.
C29_OnErrorFailureRethrows ==
    [][OnErrorThrows
       => \A i \in DOMAIN calls :
             (calls[i].pc = "onError" /\ calls'[i] # calls[i])
             => /\ calls'[i].pc = "done" /\ calls'[i].outcome = "thrown"
                /\ calls'[i].invoked = calls[i].invoked]_vars

\* The calls of executeTask in which execute is invoked by the step
Invoking ==
    {i \in DOMAIN calls' :
        calls'[i].invoked > (IF i \in DOMAIN calls THEN calls[i].invoked ELSE 0)}

\* The calls of executeTask the step begins and ends at the dependency gate
Gated ==
    {i \in DOMAIN calls' \ DOMAIN calls :
        calls'[i].pc = "done" /\ calls'[i].outcome = "waiting"}

\* C30: execute is invoked for a task only while every dependency of the
\* task is in completedTasks; and a step in which the only calls of
\* executeTask that begin end at the dependency gate changes none of
\* runningTasks, completedTasks, taskData, taskExecutionCounts, taskTimings.
C30_DependenciesGateExecute ==
    [][/\ \A i \in Invoking :
             tasks'[calls'[i].task].dependencies \subseteq completedTasks'
       /\ (Start /\ Gated # {})
          => UNCHANGED <<runningTasks, completedTasks, taskData, taskExecutionCounts,
                         taskTimings>>]_vars

\* ------------------------------------------- the dependency gate specification
\* The runs of an engine without a persistence layer whose tasks are
\* registered with the options of the resume specification (B depends on C),
\* that nobody aborts. Every promise the engine awaits settles: no call
\* stays in execute for ever (the calls being finitely many, the fairness of
\* ExecuteThrows forces no throw on a run in which every execute returns),
\* and the continuation of a settled await runs.
MaxGateCalls == 4

InitGate ==
    /\ tasks = [name \in Tasks |-> TaskConfig(ResumeTaskOptions(name))]
    /\ persistence = FALSE
    /\ completedTasks = {}
    /\ runningTasks = {}
    /\ taskData = [t \in Tasks |-> NoValue]
    /\ breakpoint = NoBreakpoint
    /\ aborted = FALSE
    /\ gracefulShutdown = FALSE
    /\ taskExecutionCounts = [t \in Tasks |-> 0]
    /\ taskTimings = [t \in Names |-> <<>>]
    /\ calls = <<>>
    /\ numCalls = 0
    /\ budget = MaxGateCalls
    /\ stored = NoSnapshot(FALSE)
    /\ writes = {}
    /\ signalAborted = FALSE
    /\ emitted = [t \in Tasks |-> 0]
    /\ entered = [t \in Tasks |-> 0]
    /\ InitOther

NextGate ==
    \/ Start
    \/ ExecuteReturns
    \/ ExecuteThrows
    \/ SuccessorsFulfilled
    \/ SuccessorRejected

SpecGate ==
    /\ InitGate /\ [][NextGate]_vars
    /\ WF_vars(ExecuteThrows)
    /\ WF_vars(SuccessorsFulfilled)
    /\ WF_vars(SuccessorRejected)

\* A call of executeTask for t has returned at the dependency guard
ReturnedAtGate(t) ==
    \E k \in DOMAIN calls :
        calls[k].task = t /\ calls[k].pc = "done" /\ calls[k].outcome = "waiting"

\* execute of t has been invoked (startTaskTiming precedes every first attempt)
Executed(t) == taskTimings[t] # <<>>

\* C31: a task whose call of executeTask returned at the dependency guard and
\* whose dependencies are all in completedTasks is eventually executed.
C31_GatedTaskIsRetriggered ==
    \A t \in Tasks :
        (ReturnedAtGate(t) /\ tasks[t].dependencies \subseteq completedTasks)
        ~> Executed(t)

\* ----------------------------------------------- the map edge specification
\* The runs of MapEdgeHandler.handle on one edge (lines 97-144): the
\* callbacks of the inputs run concurrently, each suspended at its reasoning
\* step and at its invocation of the destination, which may throw.
MaxMapInputs == 3

\* What the destination answers to an input
MapOutput(m, input) == [of |-> input, reasoned |-> m.enableReasoning]

InitMap ==
    /\ EngineIdle
    /\ snapshotValue = Prim("x")
    /\ restoredValue = [done |-> FALSE, v |-> Prim("x")]
    /\ edge = NoEdge
    /\ handler = NewHandler
    /\ stream = NewStream
    /\ resumeCall = NoResumeCall
    /\ summary = NoSummary
    /\ \E it, tn, er, ot, fb \in BOOLEAN, n \in 0 .. MaxMapInputs :
          /\ it \/ n = 0
          /\ mapping = [NoMapping EXCEPT !.inputTransform = it, !.elements = n,
                                         !.toNode = tn, !.enableReasoning = er,
                                         !.outputTransform = ot, !.fallback = fb]

MapStep(m) ==
    /\ mapping' = m
    /\ UNCHANGED <<edge, handler, snapshotValue, restoredValue, stream, summary, resumeCall>>
    /\ UNCHANGED engineVars

\* handle up to Promise.all (lines 97-111): the inputs are the elements
\* inputTransform returns, numbered from 1, or the source response; every
\* callback starts, and returns at once when the destination is missing.
HandleMap ==
    /\ mapping.pc = "idle"
    /\ LET inputs == IF mapping.inputTransform
                     THEN [k \in 1 .. mapping.elements |-> k]
                     ELSE <<SourceResponse>>
           first == IF ~mapping.toNode THEN "done"
                    ELSE IF mapping.enableReasoning THEN "reasoning" ELSE "message"
       IN  MapStep([mapping EXCEPT !.pc = "running", !.inputs = inputs,
                                   !.stage = [k \in DOMAIN inputs |-> first]])

\* the reasoning step of a callback returns (lines 114-124)
MapReasons ==
    \E k \in DOMAIN mapping.stage :
        /\ mapping.stage[k] = "reasoning"
        /\ MapStep([mapping EXCEPT !.stage[k] = "message"])

\* the destination returns its response to a callback, which pushes it to
\* mappedResponses (lines 125-132)
MapInvocationReturns ==
    \E k \in DOMAIN mapping.stage :
        /\ mapping.stage[k] = "message"
        /\ MapStep([mapping EXCEPT
                        !.stage[k] = "done",
                        !.mappedResponses = Append(@, MapOutput(mapping, mapping.inputs[k]))])

\* the invocation of the destination throws: Promise.all rejects at the
\* first rejection
MapInvocationThrows ==
    \E k \in DOMAIN mapping.stage :
        /\ mapping.stage[k] = "message"
        /\ MapStep([mapping EXCEPT !.stage[k] = "thrown",
                                   !.threw = TRUE,
                                   !.pc = IF @ = "running" THEN "thrown" ELSE @])

\* every callback has returned (lines 134-140)
MapEnds ==
    /\ mapping.pc = "running"
    /\ \A k \in DOMAIN mapping.stage : mapping.stage[k] = "done"
    /\ LET final == [transformed |-> mapping.outputTransform,
                     parts |-> mapping.mappedResponses]
       IN  MapStep([mapping EXCEPT !.pc = "returned",
                                   !.responses = Append(@, [node |-> "to", response |-> final]),
                                   !.results = @ \cup {<<"to", final>>},
                                   !.completed = @ \cup {"to"}])

\* withFallback after the function it runs has thrown
MapWithFallback ==
    /\ mapping.pc = "thrown"
    /\ MapStep([mapping EXCEPT !.pc = IF mapping.fallback THEN "returned" ELSE "rethrown"])

NextMap ==
    \/ HandleMap
    \/ MapReasons
    \/ MapInvocationReturns
    \/ MapInvocationThrows
    \/ MapEnds
    \/ MapWithFallback

SpecMap == InitMap /\ [][NextMap]_vars

\* C32: when handle has returned from a map edge whose destination exists
\* and no invocation has thrown, the list combined into the destination's
\* result holds one output per input, in the order of the inputs.
C32_MapOutputsInInputOrder ==
    (mapping.pc = "returned" /\ mapping.toNode /\ ~mapping.threw)
    => /\ Len(mapping.responses) = 1
       /\ mapping.responses[1].response.parts =
              [k \in DOMAIN mapping.inputs |-> MapOutput(mapping, mapping.inputs[k])]

\* -------------------------------------------- the timing summary specification
\* getMainTimingSummary applied to the timing records of up to three tasks.
MaxTimings == 2

\* The durations of the timing records, in milliseconds: below one second,
\* between one second and one minute, above one minute.
Durations == {400, 1500, 61000}

\* A timing record, ended with a duration or not ended
TimingRecords ==
    {[hasDuration |-> TRUE, duration |-> d] : d \in Durations}
    \cup {[hasDuration |-> FALSE, duration |-> 0]}

TimingLists == UNION {[1 .. n -> TimingRecords] : n \in 1 .. MaxTimings}

\* The orders in which tasks were first timed
TaskOrders ==
    {o \in UNION {[1 .. n -> Tasks] : n \in 1 .. Cardinality(Tasks)} :
        \A j, k \in DOMAIN o : j # k => o[j] # o[k]}

InitTiming ==
    /\ EngineIdle
    /\ snapshotValue = Prim("x")
    /\ restoredValue = [done |-> FALSE, v |-> Prim("x")]
    /\ edge = NoEdge
    /\ handler = NewHandler
    /\ stream = NewStream
    /\ resumeCall = NoResumeCall
    /\ mapping = NoMapping
    /\ \E o \in TaskOrders :
          \E tm \in [{o[k] : k \in DOMAIN o} -> TimingLists] :
              summary = [NoSummary EXCEPT
                            !.order = o,
                            !.timings = [t \in Tasks |-> IF t \in DOMAIN tm THEN tm[t] ELSE <<>>]]

\* getMainTimingSummary() (lines 559-619)
GetMainTimingSummary ==
    /\ ~summary.done
    /\ summary' = [summary EXCEPT
                      !.done = TRUE,
                      !.slowestTask = SlowestFrom(summary, 1, [name |-> "", duration |-> 0]).name]
    /\ UNCHANGED <<edge, handler, snapshotValue, restoredValue, stream, mapping, resumeCall>>
    /\ UNCHANGED engineVars

NextTiming ==
    \/ GetMainTimingSummary

SpecTiming == InitTiming /\ [][NextTiming]_vars

\* C33: when one task has a total recorded duration that is positive and
\* greater than that of every other task, getMainTimingSummary reports it
\* as slowestTask.
C33_SlowestTaskHasGreatestTotal ==
    summary.done
    => \A k \in DOMAIN summary.order :
          (/\ TotalDuration(summary.timings[summary.order[k]]) > 0
           /\ \A j \in DOMAIN summary.order :
              j # k => TotalDuration(summary.timings[summary.order[j]])
                         < TotalDuration(summary.timings[summary.order[k]]))
          => summary.slowestTask = summary.order[k]

\* C34: a call of executeTask that awaits the successors it dispatched after
\* a successful attempt does not invoke execute again, does not call onError
\* and does not mark a timing record of its task failed, whatever the
\* successors do.
C34_SuccessorFailureLeavesPredecessor ==
    [][\A i \in DOMAIN calls \cap DOMAIN calls' :
          calls[i].pc = "successors"
          => /\ calls'[i].invoked = calls[i].invoked
             /\ calls'[i].onErrorCalls = calls[i].onErrorCalls
             /\ (calls'[i].pc # "successors"
                 => TimingFailures(calls[i].task)' = TimingFailures(calls[i].task))]_vars

\* C35: the successors of a successful attempt depend on no redirectTo call
\* of an earlier attempt: while execute runs, the route override the
\* resolution will read holds nothing but what this attempt puts in it, so
\* that it is undefined when the attempt begins.
C35_RedirectFreshPerAttempt ==
    \A i \in Live : Call(i).pc = "execute" => Call(i).taskRedirect = Undefined

\* C36: a workflow that is aborted without grace stays so: no step leads
\* from a state in which executeTask starts nothing and markTaskComplete
\* records nothing to a state in which they do.
C36_HardAbortIrrevocable ==
    [][HardAborted => HardAborted']_vars

\* ------------------------------------------- the resume-by-id specification
\* The resume specification with the breakpointId of each call of resume
\* kept.
NextResumeId ==
    \/ Start
    \/ ExecuteReturns
    \/ ExecuteThrows
    \/ ExecuteInterrupts
    \/ BreakpointCaught
    \/ SaveDone
    \/ LastSaveDone
    \/ SuccessorsFulfilled
    \/ SuccessorRejected
    \/ WriteCompletes
    \/ Restart
    \/ ResumeWithId

SpecResumeId == InitResume /\ [][NextResumeId]_vars

\* C37: a call of resume whose breakpointId is not the id of the stored
\* breakpoint executes no task and leaves the state of the engine as it is.
C37_ResumeOnlyStoredBreakpoint ==
    [][(resumeCall' # resumeCall /\ resumeCall'.breakpointId # StoredBreakpointId)
       => UNCHANGED <<calls, completedTasks, runningTasks, taskData, breakpoint,
                      taskExecutionCounts, taskTimings>>]_vars

\* ------------------------------------------------------ the join specification
\* The runs of an engine without a persistence layer, with the three tasks
\* registered, that nobody aborts and whose tasks do not fail: enough calls
\* for a task to fan out to two siblings that both route to one task.
MaxJoinCalls == 5

InitJoin ==
    /\ tasks = [name \in Tasks |-> TaskConfig(TaskOptions(name))]
    /\ persistence = FALSE
    /\ completedTasks = {}
    /\ runningTasks = {}
    /\ taskData = [t \in Tasks |-> NoValue]
    /\ breakpoint = NoBreakpoint
    /\ aborted = FALSE
    /\ gracefulShutdown = FALSE
    /\ taskExecutionCounts = [t \in Tasks |-> 0]
    /\ taskTimings = [t \in Names |-> <<>>]
    /\ calls = <<>>
    /\ numCalls = 0
    /\ budget = MaxJoinCalls
    /\ stored = NoSnapshot(FALSE)
    /\ writes = {}
    /\ signalAborted = FALSE
    /\ emitted = [t \in Tasks |-> 0]
    /\ entered = [t \in Tasks |-> 0]
    /\ InitOther

NextJoin ==
    \/ Start
    \/ ExecuteReturns
    \/ SuccessorsFulfilled

SpecJoin == InitJoin /\ [][NextJoin]_vars

\* The call of A that was started has fanned out to B and C, which have both
\* routed to A; with MaxJoinCalls calls there is no other call.
SiblingsJoined ==
    /\ 1 \in Live /\ Call(1).task = "A" /\ Call(1).pc = "successors"
    /\ numCalls = MaxJoinCalls
    /\ \E b, c \in Call(1).kids :
          /\ Call(b).task = "B" /\ Call(c).task = "C"
          /\ Call(b).resolved /\ Call(b).nextTasks = One("A")
          /\ Call(c).resolved /\ Call(c).nextTasks = One("A")

\* The order in which the second sibling routes to A while the call the
\* first sibling made is still running: the second call is skipped.
SecondRouteSkipped ==
    /\ SiblingsJoined
    /\ \A k \in Call(1).kids : Ended(k)
    /\ Len(taskTimings["A"]) = 2 /\ taskExecutionCounts["A"] = 2

\* C38: when B and C, running concurrently, both route to A, execute of A is
\* invoked as many times and the execution count of A is the same in every
\* order: as in the order above, A is executed once more and no more.
C38_JoinRunsOnceInEveryOrder ==
    SiblingsJoined
    => Len(taskTimings["A"]) = 2 /\ taskExecutionCounts["A"] <= 2

\* C39: each completion of a task produces exactly one taskExecution event:
\* the events emitted for a task are as many as its completions, which the
\* execution count records.
C39_OneEventPerCompletion ==
    \A t \in Tasks : emitted[t] = taskExecutionCounts[t]

====
